---------------------------- MODULE Spec2Model ----------------------------
(***************************************************************************)
(* The dynamic point quadtree of src/main.rs (Quadtree, Subdivision,       *)
(* RectContainer, BoidPool) as a state machine.                            *)
(*                                                                         *)
(* Coordinates.  Coord is f32 in the source.  The model keeps a uniform    *)
(* grid of representable values (the integers) and computes the midpoint   *)
(* (a + b) / 2.0 as the source's arithmetic does on representable values:  *)
(* exactly when the result is representable, and rounded to the nearest    *)
(* representable value, ties to even, when it is not.  The positions the   *)
(* environment hands out lie two grid steps apart or more, so a rectangle  *)
(* is halved exactly until it separates any two distinct positions, and    *)
(* the rounding shows only below that, where a rectangle stops shrinking.  *)
(*                                                                         *)
(* A node is a record [container, boids, subdivisions]; subdivisions is    *)
(* << >> for None and << [ne, nw, se, sw] >> for Some(Subdivision).        *)
(***************************************************************************)
EXTENDS Integers, Sequences, FiniteSets

VARIABLES
    qt,         \* BoidWorld.qt: the root Quadtree
    bp,         \* BoidPool.positions: sequence of <<x, y>>, indexed by BoidID
    capacity,   \* QT_CAPACITY of this run
    inserted,   \* the ids whose push returned Ok
    op,         \* the last operation: "new", "insert", "move", "rebalance"
    res,        \* how the last operation ended
    moved,      \* TRUE when a position changed since the last rebalance
    vacated     \* the paths of the quadrant nodes the last rebalance found
                \* subdivided with no point left in their rectangle

vars == <<qt, bp, capacity, inserted, op, res, moved, vacated>>

-----------------------------------------------------------------------------
(* Bounds of the model *)

MaxCapacity == 2
MaxBoids == 3
WorldSize == 4
ScenarioMovers == 2     \* the scenario's points that move: A, and B beside it
ViewRange == 2          \* VIEW_RANGE of line 423, on the model's grid

-----------------------------------------------------------------------------
(* Outcomes of an operation *)

Ok == "Ok"
GeometryError == "GeometryError"       \* Err of push, line 237
ChildError == "ChildError"             \* Err mapped at line 279
ExpectPanic == "ExpectPanic"           \* expect() at line 308
LostPanic == "LostPanic"               \* panic!() at line 327
NoReturn == "NoReturn"                 \* the call re-enters itself unchanged

Errs == {GeometryError, ChildError}
Faults == {ExpectPanic, LostPanic, NoReturn}

-----------------------------------------------------------------------------
(* RectContainer *)

RectContainer(lx, rx, ty, by) == [lx |-> lx, rx |-> rx, ty |-> ty, by |-> by]

\* (a + b) / 2.0 on the grid of representable values, round half to even
Mid(a, b) ==
    LET s == a + b
        f == s \div 2
    IN  IF s % 2 = 0 THEN f
        ELSE IF f % 2 = 0 THEN f ELSE f + 1

\* RectContainer::new_from_center
NewFromCenter(cx, cy, width, height) ==
    LET half_width == Mid(0, width)
        half_height == Mid(0, height)
    IN  [lx |-> cx - half_width, rx |-> cx + half_width,
         ty |-> cy - half_height, by |-> cy + half_height]

Contains(c, x, y) ==
    LET x_inside == c.lx <= x /\ x <= c.rx
        y_inside == c.ty <= y /\ y <= c.by
    IN  x_inside /\ y_inside

\* intersects with rectangles that share only an edge taken apart
IntersectsOpen(c, other) ==
    LET no_x_overlap == c.rx <= other.lx \/ other.rx <= c.lx
        no_y_overlap == c.by <= other.ty \/ other.by <= c.ty
    IN  ~(no_x_overlap \/ no_y_overlap)

\* intersects taken for "the other rectangle lies within this one"
IntersectsWithin(c, other) ==
    /\ c.lx <= other.lx /\ other.rx <= c.rx
    /\ c.ty <= other.ty /\ other.by <= c.by

Intersects(c, other) ==
    LET no_x_overlap == c.rx < other.lx \/ other.rx < c.lx
        no_y_overlap == c.by < other.ty \/ other.by < c.ty
    IN  ~(no_x_overlap \/ no_y_overlap)

-----------------------------------------------------------------------------
(* Quadtree and Subdivision *)

NewQuadtree(lx, rx, ty, by) ==
    [container |-> RectContainer(lx, rx, ty, by),
     boids |-> << >>,
     subdivisions |-> << >>]

NewFromParentContainer(c) ==
    LET cx == Mid(c.lx, c.rx)
        cy == Mid(c.ty, c.by)
    IN  [ne |-> NewQuadtree(cx, c.rx, c.ty, cy),
         nw |-> NewQuadtree(c.lx, cx, c.ty, cy),
         sw |-> NewQuadtree(c.lx, cx, cy, c.by),
         se |-> NewQuadtree(cx, c.rx, cy, c.by)]

\* is_empty with is_none taken for is_some
IsEmptyOfInternal(node) == node.subdivisions # << >> /\ node.boids = << >>

IsEmpty(node) == node.subdivisions = << >> /\ node.boids = << >>

AllAreEmpty(sub) ==
    IsEmpty(sub.ne) /\ IsEmpty(sub.nw) /\ IsEmpty(sub.se) /\ IsEmpty(sub.sw)

\* find_which_child with the comparison on x turned round
FindWhichChildMirrored(c, pos) ==
    LET cx == Mid(c.lx, c.rx)
        cy == Mid(c.ty, c.by)
        hor == pos[1] > cx
        ver == pos[2] <= cy
    IN  IF hor /\ ver THEN "nw"
        ELSE IF hor /\ ~ver THEN "sw"
        ELSE IF ~hor /\ ver THEN "ne"
        ELSE "se"

FindWhichChild(c, pos) ==
    LET cx == Mid(c.lx, c.rx)
        cy == Mid(c.ty, c.by)
        hor == pos[1] <= cx
        ver == pos[2] <= cy
    IN  IF hor /\ ver THEN "nw"
        ELSE IF hor /\ ~ver THEN "sw"
        ELSE IF ~hor /\ ver THEN "ne"
        ELSE "se"

RECURSIVE Push(_, _, _)
RECURSIVE PushUncheckedWithPosition(_, _, _, _)
RECURSIVE SubdivideFrom(_, _, _, _)

\* the node with its child in quadrant quad replaced
WithChild(node, quad, child) ==
    [node EXCEPT !.subdivisions = << [node.subdivisions[1] EXCEPT ![quad] = child] >>]

\* push without the check of line 236: the id goes in wherever it is
PushNoCheck(node, boid_id, pool) ==
    PushUncheckedWithPosition(node, boid_id, pool, pool[boid_id])

\* Quadtree::push: [qt |-> the node afterwards, res |-> outcome]
Push(node, boid_id, pool) ==
    IF ~Contains(node.container, pool[boid_id][1], pool[boid_id][2])
    THEN [qt |-> node, res |-> GeometryError]
    ELSE PushUncheckedWithPosition(node, boid_id, pool, pool[boid_id])

\* Lines 302-308: r is what the push of boids_ids[i] into the child in quad
\* returned; an Err is the expect() panic, Ok goes on with the next id.
SubdivideExpect(node, boids_ids, i, pool, quad, r) ==
    IF r.res = Ok
    THEN SubdivideFrom(WithChild(node, quad, r.qt), boids_ids, i + 1, pool)
    ELSE [qt |-> WithChild(node, quad, r.qt),
          res |-> IF r.res \in Errs THEN ExpectPanic ELSE r.res]

\* Lines 293-307: quad is the child find_which_child names for boids_ids[i]
SubdivideInto(node, boids_ids, i, pool, quad) ==
    SubdivideExpect(node, boids_ids, i, pool, quad,
                    Push(node.subdivisions[1][quad], boids_ids[i], pool))

\* The loop of subdivide (lines 291-309) from boids_ids[i] on
SubdivideFrom(node, boids_ids, i, pool) ==
    IF i > Len(boids_ids) THEN [qt |-> node, res |-> Ok]
    ELSE SubdivideInto(node, boids_ids, i, pool,
                       FindWhichChild(node.container, pool[boids_ids[i]]))

\* subdivide without the take of line 289: the ids stay in the node as well
SubdivideKeeps(node, pool) ==
    SubdivideFrom([node EXCEPT
                      !.subdivisions = << NewFromParentContainer(node.container) >>],
                  node.boids, 1, pool)

\* Quadtree::subdivide: the node gets four empty children, its ids are taken
\* out (line 289) and pushed to the children one by one.
Subdivide(node, pool) ==
    SubdivideFrom([node EXCEPT
                      !.subdivisions = << NewFromParentContainer(node.container) >>,
                      !.boids = << >>],
                  node.boids, 1, pool)

\* Lines 273-279: r is what the push into the child in quad returned
Delegated(node, quad, r) ==
    [qt |-> WithChild(node, quad, r.qt),
     res |-> IF r.res \in Errs THEN ChildError ELSE r.res]

\* Lines 264-279 of push_unchecked_with_position: hand the id to the child
\* in quad.  `entered` is the node as the call found it.  When that child is
\* equal to `entered` (same rectangle, same ids, not subdivided), the push
\* into it is the very call being evaluated: the recursion never returns.
DelegateTo(node, entered, boid_id, pool, quad) ==
    IF node.subdivisions[1][quad] = entered
    THEN [qt |-> node, res |-> NoReturn]
    ELSE Delegated(node, quad, Push(node.subdivisions[1][quad], boid_id, pool))

Delegate(node, entered, boid_id, pool, position) ==
    DelegateTo(node, entered, boid_id, pool, FindWhichChild(node.container, position))

\* Lines 259-279: s is what subdivide made of the full leaf `entered`
AfterSubdivide(s, entered, boid_id, pool, position) ==
    IF s.res # Ok THEN s
    ELSE Delegate(s.qt, entered, boid_id, pool, position)

PushUncheckedWithPosition(node, boid_id, pool, position) ==
    IF node.subdivisions = << >>
    THEN IF Len(node.boids) < capacity
         THEN [qt |-> [node EXCEPT !.boids = Append(@, boid_id)], res |-> Ok]
         ELSE AfterSubdivide(Subdivide(node, pool), node, boid_id, pool, position)
    ELSE Delegate(node, node, boid_id, pool, position)

RECURSIVE RebalanceRec(_, _)
RECURSIVE RetainRejects(_, _, _, _, _)
RECURSIVE RetainBoids(_, _, _, _, _)
RECURSIVE RetainBoidsDrop(_, _, _, _, _)
RECURSIVE RetainBoidsTypo(_, _, _, _, _)
RECURSIVE RetainBoidsSkip(_, _, _, _, _)
RECURSIVE QueryRange(_, _, _)
RECURSIVE QueryRangeForgets(_, _, _)

\* line 344 forgotten: no orphan is pushed, all climb to the caller
RetainRejectsClimb(node, rejects, i, kept, pool) ==
    [qt |-> node, rejects |-> rejects, res |-> Ok]

\* line 344 with the push forgotten: an id inside the node's rectangle is
\* taken off the rejects and handed to nobody
RetainRejectsSwallow(node, rejects, i, kept, pool) ==
    [qt |-> node,
     rejects |-> SelectSeq(rejects, LAMBDA id :
                    ~Contains(node.container, pool[id][1], pool[id][2])),
     res |-> Ok]

\* The closure of line 344: r is what self.push(rejects[i]) returned; the id
\* stays a reject when the push is an Err.
RetainPushed(r, rejects, i, kept, pool) ==
    IF r.res = Ok THEN RetainRejects(r.qt, rejects, i + 1, kept, pool)
    ELSE IF r.res \in Errs
    THEN RetainRejects(r.qt, rejects, i + 1, Append(kept, rejects[i]), pool)
    ELSE [qt |-> r.qt, rejects |-> kept, res |-> r.res]

\* rejects.retain(|&id| self.push(id, bp).is_err()), line 344, from index i:
\* `kept` are the ids whose push failed so far.
RetainRejects(node, rejects, i, kept, pool) ==
    IF i > Len(rejects) THEN [qt |-> node, rejects |-> kept, res |-> Ok]
    ELSE RetainPushed(Push(node, rejects[i], pool), rejects, i, kept, pool)

\* lines 347-355 with the test forgotten: every id of the leaf is handed up
RetainBoidsEvict(node, i, kept, rejects, pool) ==
    [qt |-> [node EXCEPT !.boids = << >>],
     rejects |-> rejects \o node.boids,
     res |-> Ok]

\* lines 347-355 with line 352 forgotten: an id that left is removed and
\* not handed up
RetainBoidsDrop(node, i, kept, rejects, pool) ==
    IF i > Len(node.boids)
    THEN [qt |-> [node EXCEPT !.boids = kept], rejects |-> rejects, res |-> Ok]
    ELSE IF Contains(node.container, pool[node.boids[i]][1], pool[node.boids[i]][2])
    THEN RetainBoidsDrop(node, i + 1, Append(kept, node.boids[i]), rejects, pool)
    ELSE RetainBoidsDrop(node, i + 1, kept, rejects, pool)

\* lines 347-355 with position.x tested on both axes
RetainBoidsTypo(node, i, kept, rejects, pool) ==
    IF i > Len(node.boids)
    THEN [qt |-> [node EXCEPT !.boids = kept], rejects |-> rejects, res |-> Ok]
    ELSE IF Contains(node.container, pool[node.boids[i]][1], pool[node.boids[i]][1])
    THEN RetainBoidsTypo(node, i + 1, Append(kept, node.boids[i]), rejects, pool)
    ELSE RetainBoidsTypo(node, i + 1, kept, Append(rejects, node.boids[i]), pool)

\* lines 347-355 as a loop that removes while it walks the indices: the id
\* after a removed one is stepped over and stays
RetainBoidsSkip(node, i, kept, rejects, pool) ==
    IF i > Len(node.boids)
    THEN [qt |-> [node EXCEPT !.boids = kept], rejects |-> rejects, res |-> Ok]
    ELSE IF Contains(node.container, pool[node.boids[i]][1], pool[node.boids[i]][2])
    THEN RetainBoidsSkip(node, i + 1, Append(kept, node.boids[i]), rejects, pool)
    ELSE IF i + 1 <= Len(node.boids)
    THEN RetainBoidsSkip(node, i + 2, Append(kept, node.boids[i + 1]),
                         Append(rejects, node.boids[i]), pool)
    ELSE RetainBoidsSkip(node, i + 1, kept, Append(rejects, node.boids[i]), pool)

\* self.boids.retain(...), lines 347-355, from index i: an id whose position
\* the rectangle contains is kept, any other goes to the rejects.
RetainBoids(node, i, kept, rejects, pool) ==
    IF i > Len(node.boids)
    THEN [qt |-> [node EXCEPT !.boids = kept], rejects |-> rejects, res |-> Ok]
    ELSE IF Contains(node.container, pool[node.boids[i]][1], pool[node.boids[i]][2])
    THEN RetainBoids(node, i + 1, Append(kept, node.boids[i]), rejects, pool)
    ELSE RetainBoids(node, i + 1, kept, Append(rejects, node.boids[i]), pool)

\* lines 340-342 without the test: the subdivision is always put back
RestoredAlways(node, after) == [node EXCEPT !.subdivisions = << after >>]

\* Lines 334 and 340-342: the subdivision, taken out of the node, is put
\* back unless all four rebalanced children are empty.
Restored(node, after) ==
    [node EXCEPT !.subdivisions =
        IF ~AllAreEmpty(after) THEN << after >> ELSE << >>]

\* Lines 336-344: ne, nw, se, sw are what _rebalance returned for the four
\* children, called in this order; their rejects are appended in this order
\* and pushed to this node.  A panic below ends the call.
RebalanceChildren(node, pool, ne, nw, se, sw) ==
    IF ne.res # Ok THEN [qt |-> node, rejects |-> << >>, res |-> ne.res]
    ELSE IF nw.res # Ok THEN [qt |-> node, rejects |-> << >>, res |-> nw.res]
    ELSE IF se.res # Ok THEN [qt |-> node, rejects |-> << >>, res |-> se.res]
    ELSE IF sw.res # Ok THEN [qt |-> node, rejects |-> << >>, res |-> sw.res]
    ELSE RetainRejects(
            Restored(node, [ne |-> ne.qt, nw |-> nw.qt, se |-> se.qt, sw |-> sw.qt]),
            ne.rejects \o nw.rejects \o se.rejects \o sw.rejects,
            1, << >>, pool)

\* Quadtree::_rebalance: [qt, rejects, res]
RebalanceRec(node, pool) ==
    IF node.subdivisions # << >>
    THEN RebalanceChildren(node, pool,
                           RebalanceRec(node.subdivisions[1].ne, pool),
                           RebalanceRec(node.subdivisions[1].nw, pool),
                           RebalanceRec(node.subdivisions[1].se, pool),
                           RebalanceRec(node.subdivisions[1].sw, pool))
    ELSE RetainBoids(node, 1, << >>, << >>, pool)

\* Lines 325-328: r is what _rebalance returned at the root
RootOutcome(r) ==
    IF r.res # Ok THEN [qt |-> r.qt, res |-> r.res]
    ELSE IF r.rejects = << >> THEN [qt |-> r.qt, res |-> Ok]
    ELSE [qt |-> r.qt, res |-> LostPanic]

\* Quadtree::rebalance
RebalanceRoot(node, pool) == RootOutcome(RebalanceRec(node, pool))

\* The loop of query_range over self.boids, lines 368-373
ScanBoids(boids, query, pool) ==
    SelectSeq(boids, LAMBDA id : Contains(query, pool[id][1], pool[id][2]))

\* query_range with line 378 forgotten: the south-east child is not asked
QueryRangeForgets(node, query, pool) ==
    IF ~Intersects(node.container, query) THEN << >>
    ELSE IF node.subdivisions # << >>
    THEN ScanBoids(node.boids, query, pool)
            \o QueryRangeForgets(node.subdivisions[1].ne, query, pool)
            \o QueryRangeForgets(node.subdivisions[1].nw, query, pool)
            \o QueryRangeForgets(node.subdivisions[1].sw, query, pool)
    ELSE ScanBoids(node.boids, query, pool)

\* Quadtree::query_range
QueryRange(node, query, pool) ==
    IF ~Intersects(node.container, query) THEN << >>
    ELSE IF node.subdivisions # << >>
    THEN ScanBoids(node.boids, query, pool)
            \o QueryRange(node.subdivisions[1].ne, query, pool)
            \o QueryRange(node.subdivisions[1].nw, query, pool)
            \o QueryRange(node.subdivisions[1].se, query, pool)
            \o QueryRange(node.subdivisions[1].sw, query, pool)
    ELSE ScanBoids(node.boids, query, pool)

-----------------------------------------------------------------------------
(* Observers of a tree: used by the operations' bookkeeping and the claims *)

RECURSIVE Held(_)
RECURSIVE AllContained(_, _)
RECURSIVE InternalPaths(_)
RECURSIVE NodeAt(_, _)

Range(seq) == {seq[i] : i \in 1..Len(seq)}

NoDup(seq) == \A i, j \in 1..Len(seq) : seq[i] = seq[j] => i = j

\* every id held in the subtree of node, one entry per holding
Held(node) ==
    IF node.subdivisions = << >> THEN node.boids
    ELSE LET sub == node.subdivisions[1]
         IN  node.boids \o Held(sub.ne) \o Held(sub.nw) \o Held(sub.se) \o Held(sub.sw)

\* every id held in the subtree lies in the rectangle of each node above it
AllContained(node, pool) ==
    /\ \A id \in Range(Held(node)) :
            Contains(node.container, pool[id][1], pool[id][2])
    /\ node.subdivisions # << >> =>
            LET sub == node.subdivisions[1]
            IN  /\ AllContained(sub.ne, pool)
                /\ AllContained(sub.nw, pool)
                /\ AllContained(sub.se, pool)
                /\ AllContained(sub.sw, pool)

\* the paths (sequences of quadrant names) of the subdivided nodes
InternalPaths(node) ==
    IF node.subdivisions = << >> THEN {}
    ELSE LET sub == node.subdivisions[1]
         IN  {<< >>} \cup
             UNION {{<<q>> \o p : p \in InternalPaths(sub[q])} :
                        q \in {"ne", "nw", "se", "sw"}}

\* << n >> for the node n at the path, << >> when the tree has no such node
NodeAt(node, path) ==
    IF path = << >> THEN << node >>
    ELSE IF node.subdivisions = << >> THEN << >>
    ELSE NodeAt(node.subdivisions[1][Head(path)], Tail(path))

\* no held point's current position lies in the rectangle of node
NoPointIn(node, root, pool) ==
    \A id \in Range(Held(root)) :
        ~Contains(node.container, pool[id][1], pool[id][2])

VacatedPaths(root, pool) ==
    {p \in InternalPaths(root) \ {<< >>} : NoPointIn(NodeAt(root, p)[1], root, pool)}

-----------------------------------------------------------------------------
(* The environment: the world rectangle and the positions handed to the pool *)

\* BoidWorld::new: the root covers [0, WorldSize] on both axes
WorldRoot == NewQuadtree(0, WorldSize, 0, WorldSize)

\* The positions the environment hands out: the world's corners on the
\* diagonal and the north-east one, its centre (on both dividers of the
\* root), and a position east of the world.
Centre == <<Mid(0, WorldSize), Mid(0, WorldSize)>>
Inside == {<<0, 0>>, Centre, <<WorldSize, WorldSize>>, <<WorldSize, 0>>}
Outside == {<<WorldSize + 2, 0>>}
GridDomain == Inside \cup Outside

\* The scenario of the specification's section 8, in units of one half so
\* that every midpoint it meets is a grid value: the rectangle
\* [0,100]x[0,100], A(10,10), B(10,20), C(90,90), D(90,80), and (95,95).
ScenarioRoot == NewQuadtree(0, 200, 0, 200)
ScenarioStart == << <<20, 20>>, <<20, 40>>, <<180, 180>>, <<180, 160>> >>
ScenarioTarget == <<190, 190>>
ScenarioEnd == [ScenarioStart EXCEPT ![1] = ScenarioTarget]
ScenarioPositions == {ScenarioStart[i] : i \in 1..Len(ScenarioStart)} \cup {ScenarioTarget}

-----------------------------------------------------------------------------
(* Operations *)

Running == res \notin Faults

\* r is what the push of the new id boid_id returned
Pushed(boid_id, r) ==
    /\ res' = r.res
    /\ qt' = IF r.res \in Faults THEN qt ELSE r.qt
    /\ inserted' = IF r.res = Ok THEN inserted \cup {boid_id} ELSE inserted

\* BoidPool::push of a new boid followed by Quadtree::push of its id, as
\* populate does (lines 416-417), the Result kept instead of unwrapped.
Insert(position) ==
    /\ Running
    /\ bp' = Append(bp, position)
    /\ Pushed(Len(bp) + 1, Push(qt, Len(bp) + 1, Append(bp, position)))
    /\ op' = "insert"
    /\ vacated' = {}
    /\ UNCHANGED <<capacity, moved>>

\* BoidPool::set_position
Move(id, position) ==
    /\ Running
    /\ id \in 1..Len(bp)
    /\ bp[id] # position
    /\ bp' = [bp EXCEPT ![id] = position]
    /\ op' = "move"
    /\ res' = Ok
    /\ moved' = TRUE
    /\ vacated' = {}
    /\ UNCHANGED <<qt, capacity, inserted>>

\* r is what rebalance made of the root
Rebalanced(r) ==
    /\ res' = r.res
    /\ qt' = IF r.res \in Faults THEN qt ELSE r.qt

\* Quadtree::rebalance on the root
Rebalance ==
    /\ Running
    /\ Rebalanced(RebalanceRoot(qt, bp))
    /\ op' = "rebalance"
    /\ moved' = FALSE
    /\ vacated' = VacatedPaths(qt, bp)
    /\ UNCHANGED <<bp, capacity, inserted>>

Init ==
    /\ qt = WorldRoot
    /\ bp = << >>
    /\ capacity \in 1..MaxCapacity
    /\ inserted = {}
    /\ op = "new"
    /\ res = Ok
    /\ moved = FALSE
    /\ vacated = {}

Next ==
    \/ \E position \in GridDomain : Len(bp) < MaxBoids /\ Insert(position)
    \/ \E id \in 1..MaxBoids, position \in GridDomain : Move(id, position)
    \/ Rebalance

Spec == Init /\ [][Next]_vars

\* The scenario's world: capacity 2, the four points inserted in order at
\* their starting positions (populate), then moves of the first
\* ScenarioMovers points among the scenario's positions and rebalances, in
\* any order (update).
InitScenario ==
    /\ qt = ScenarioRoot
    /\ bp = << >>
    /\ capacity = 2
    /\ inserted = {}
    /\ op = "new"
    /\ res = Ok
    /\ moved = FALSE
    /\ vacated = {}

NextScenario ==
    \/ Len(bp) < Len(ScenarioStart) /\ Insert(ScenarioStart[Len(bp) + 1])
    \/ \E id \in 1..ScenarioMovers, position \in ScenarioPositions :
            Len(bp) = Len(ScenarioStart) /\ Move(id, position)
    \/ Rebalance

SpecScenario == InitScenario /\ [][NextScenario]_vars

TypeOK ==
    /\ capacity \in 1..MaxCapacity
    /\ Len(bp) <= MaxBoids
    /\ res \in {Ok} \cup Errs \cup Faults

-----------------------------------------------------------------------------
(* Claims *)

\* C1: count conservation.  Whenever the operations so far have returned,
\* the ids held across all nodes are exactly the ids whose insert succeeded,
\* each held once: none is lost and none is held twice.
CountConservation ==
    Running => /\ NoDup(Held(qt))
               /\ Range(Held(qt)) = inserted

\* C1 witness: a rebalance has returned on a subdivided tree that holds
\* MaxBoids ids, after positions changed from those the ids were inserted at.
ConservedAfterRebalance ==
    /\ op = "rebalance" /\ res = Ok
    /\ Cardinality(inserted) = MaxBoids
    /\ qt.subdivisions # << >>
    /\ \E id \in inserted :
          ~Contains(qt.subdivisions[1].nw.container, bp[id][1], bp[id][2])
    /\ \E id \in inserted : bp[id] = Centre

\* C2 as stated: after every successful insert and after every rebalance,
\* in any sequence of inserts, moves and rebalances, each held id lies in
\* the rectangle of its leaf and of every ancestor of that leaf.  (Stated
\* for the sequences that keep every position inside the root rectangle.)
ContainmentAfterInsertOrRebalance ==
    (/\ op \in {"insert", "rebalance"} /\ res = Ok
     /\ \A id \in 1..Len(bp) : Contains(qt.container, bp[id][1], bp[id][2]))
        => AllContained(qt, bp)

\* C2 amended: each held id lies in the rectangle of its leaf and of every
\* ancestor of that leaf after every rebalance that returns, and after
\* every insert made while no position has changed since the last rebalance
\* (or since construction).
ContainmentWhenRebalanced ==
    (Running /\ ~moved) => AllContained(qt, bp)

\* C2 witness: a rebalance has returned and moved an id out of the leaf of
\* a quadrant node subdivided in its turn.
ContainedAfterRebalance ==
    /\ op = "rebalance" /\ res = Ok /\ ~moved
    /\ Cardinality(inserted) = MaxBoids
    /\ \E p \in InternalPaths(qt) : p # << >>
    /\ \E q \in {"ne", "se"} :
          LET n == qt.subdivisions[1][q]
          IN  n.boids # << >> /\ n.boids[Len(n.boids)] # Len(bp)

\* C3: full coverage round trip.  After inserts and move-then-rebalance
\* steps, for each capacity of 1..MaxCapacity, the range query over the whole
\* root rectangle returns exactly the inserted ids, each once.
FullCoverage ==
    (Running /\ ~moved) =>
        LET results == QueryRange(qt, qt.container, bp)
        IN  NoDup(results) /\ Range(results) = inserted

\* C3 witness: the full query answers MaxBoids ids on a subdivided tree
\* after a rebalance.
FullCoverageReached ==
    /\ op = "rebalance" /\ res = Ok
    /\ qt.subdivisions # << >>
    /\ Len(QueryRange(qt, qt.container, bp)) = MaxBoids
    /\ \E id \in inserted : bp[id] = <<WorldSize, WorldSize>>

\* C4: rebalance idempotence.  A rebalance that directly follows a rebalance
\* (no position change in between) returns and leaves the tree as it was.
RebalanceIdempotent ==
    [][(op = "rebalance" /\ res = Ok /\ op' = "rebalance")
            => (res' = Ok /\ qt' = qt)]_vars

\* C4 witness: a rebalance has returned that collapsed a vacated quadrant
\* node and re-inserted its ids elsewhere; a second rebalance is enabled.
RebalancedOnce ==
    /\ op = "rebalance" /\ res = Ok
    /\ vacated # {}
    /\ qt.subdivisions # << >>
    /\ ENABLED Rebalance

\* The scenario's two queries, [80,100]x[80,100] and [0,20]x[0,30]
ScenarioQueryFar == QueryRange(qt, RectContainer(160, 200, 160, 200), bp)
ScenarioQueryNear == QueryRange(qt, RectContainer(0, 40, 0, 60), bp)

\* the scenario has run: A, B, C, D inserted, A moved to (95,95), rebalance
ScenarioRan ==
    /\ bp = ScenarioEnd
    /\ inserted = 1..Len(ScenarioStart)
    /\ op = "rebalance" /\ res = Ok

\* C5 as stated: after the scenario the query of [80,100]x[80,100] returns
\* exactly {A, C, D} and the query of [0,20]x[0,30] returns the empty set.
ScenarioAsStated ==
    ScenarioRan => /\ Range(ScenarioQueryFar) = {1, 3, 4}
                   /\ ScenarioQueryNear = << >>

\* C5 amended: after the scenario the query of [80,100]x[80,100] returns
\* exactly {A, C, D}, each once, and the query of [0,20]x[0,30] returns
\* exactly {B}: B stays at (10,20), which lies inside that rectangle.
ScenarioQueries ==
    ScenarioRan => /\ Range(ScenarioQueryFar) = {1, 3, 4}
                   /\ NoDup(ScenarioQueryFar)
                   /\ ScenarioQueryNear = <<2>>

\* C5 witness: the scenario has run and left A with C in the south-east
\* grandchild of the root's south-east quadrant, D beside them, B alone in
\* the north-west quadrant.
ScenarioReached ==
    /\ ScenarioRan
    /\ qt.subdivisions # << >>
    /\ qt.subdivisions[1].nw.boids = <<2>>
    /\ Held(qt.subdivisions[1].se) = <<4, 3, 1>>
    /\ \E p \in InternalPaths(qt) : p = <<"se", "se">>

\* the position the last insert gave to the pool (bp' is bp with it appended)
Appended == bp'[Len(bp')]

\* C6 as stated: capacity threshold.  An insert into the root while it is a
\* leaf with fewer than CAPACITY ids keeps it a leaf; an insert at any
\* position inside the rectangle into the root while it is a leaf holding
\* exactly CAPACITY ids makes it internal, and the query over the whole
\* rectangle then returns all CAPACITY + 1 ids.
CapacityThreshold ==
    [][(/\ op' = "insert"
        /\ ~moved
        /\ qt.subdivisions = << >>
        /\ Contains(qt.container, Appended[1], Appended[2]))
        => /\ Len(qt.boids) < capacity =>
                (res' = Ok /\ qt'.subdivisions = << >>)
           /\ Len(qt.boids) = capacity =>
                /\ res' = Ok
                /\ qt'.subdivisions # << >>
                /\ Range(QueryRange(qt', qt'.container, bp')) = inserted'
                /\ Cardinality(inserted') = capacity + 1]_vars

\* C7 as stated: every call of insert and of rebalance terminates, whatever
\* the positions inside the root rectangle, coincident ones included.
EveryCallReturns ==
    (\A id \in 1..Len(bp) : Contains(qt.container, bp[id][1], bp[id][2]))
        => res # NoReturn

RECURSIVE DividerRule(_, _)
DividerRule(node, pool) ==
    node.subdivisions # << >> =>
        LET sub == node.subdivisions[1]
            c == node.container
            cx == Mid(c.lx, c.rx)
            cy == Mid(c.ty, c.by)
        IN  /\ \A id \in Range(Held(node)) :
                    (pool[id][1] = cx \/ pool[id][2] = cy) =>
                        id \in Range(Held(sub[FindWhichChild(c, pool[id])]))
            /\ \A q \in {"ne", "nw", "se", "sw"} : DividerRule(sub[q], pool)

\* C9 as stated: after every insert and every rebalance (no position changed
\* since), a point that lies on the divider of an internal node is held
\* once, under the west/north child that x <= midx, y <= midy selects,
\* whichever quadrant held it before it moved onto the divider.
DividerClassification ==
    (op \in {"insert", "rebalance"} /\ res = Ok /\ ~moved) =>
        /\ NoDup(Held(qt))
        /\ DividerRule(qt, bp)

\* C10: an insert of an id whose position is outside the root rectangle
\* returns the GeometryError and changes nothing: the tree is the same, the
\* id is held nowhere and counts as not inserted, and every query answers
\* as before.
OutsideInsertRejected ==
    [][(op' = "insert" /\ ~Contains(qt.container, Appended[1], Appended[2]))
        => /\ res' = GeometryError
           /\ qt' = qt
           /\ inserted' = inserted
           /\ Len(bp') \notin Range(Held(qt'))
           /\ QueryRange(qt', qt'.container, bp') = QueryRange(qt, qt.container, bp)]_vars

\* C10 witness: an insert was refused on a subdivided tree, and the refused
\* id is in the pool and not in the tree.
InsertRefused ==
    /\ op = "insert" /\ res = GeometryError
    /\ qt.subdivisions # << >>
    /\ Len(bp) \notin Range(Held(qt))
    /\ ~Contains(qt.container, bp[Len(bp)][1], bp[Len(bp)][2])

\* the ids held under node whose position node's rectangle does not contain
HeldOutside(node, pool) ==
    {id \in Range(Held(node)) : ~Contains(node.container, pool[id][1], pool[id][2])}

\* C11 as stated: a rebalance of the root ends in the fault "Some elements
\* were lost" if and only if a held id has its position outside the root
\* rectangle, and ends in no fault at all when every held id is inside it.
OrphanAboveRootIff ==
    [][op' = "rebalance" =>
        /\ (res' = LostPanic) <=> (HeldOutside(qt, bp) # {})
        /\ (HeldOutside(qt, bp) = {}) => (res' \notin Faults)]_vars

\* the neighborhood of calculate_headings (lines 436-437) around a position
Neighborhood(position) ==
    NewFromCenter(position[1], position[2], ViewRange, ViewRange)

\* C12: self-inclusion.  Whenever the tick loop queries (after the inserts,
\* and after each rebalance that follows the moves), the query of the
\* rectangle centred on a held point's position returns that point's id, so
\* the neighbour list is never empty.
SelfInclusion ==
    (Running /\ ~moved) =>
        \A id \in inserted :
            id \in Range(QueryRange(qt, Neighborhood(bp[id]), bp))

\* C12 witness: after moves and a rebalance that returned, on a tree
\* subdivided twice, a held point in the world's corner, its neighborhood
\* partly outside the root, is in its own query's result.
SelfIncluded ==
    /\ op = "rebalance" /\ res = Ok
    /\ Cardinality(inserted) = MaxBoids
    /\ \E p \in InternalPaths(qt) : p # << >>
    /\ \E id \in inserted :
          /\ bp[id] = <<0, 0>>
          /\ ~Contains(qt.container, Neighborhood(bp[id]).lx, Neighborhood(bp[id]).ty)
          /\ id \in Range(QueryRange(qt, Neighborhood(bp[id]), bp))

\* a leaf holds at most `capacity` ids; a subdivided node holds none itself
\* and has the four children ne, nw, se, sw, each of that shape in its turn
RECURSIVE NodeShape(_)
NodeShape(node) ==
    IF node.subdivisions = << >>
    THEN Len(node.boids) <= capacity
    ELSE /\ node.boids = << >>
         /\ Len(node.subdivisions) = 1
         /\ DOMAIN node.subdivisions[1] = {"ne", "nw", "se", "sw"}
         /\ \A q \in {"ne", "nw", "se", "sw"} : NodeShape(node.subdivisions[1][q])

\* C13: node shape.  After every insert and every rebalance that returns,
\* each node is a leaf holding at most CAPACITY ids or an internal node with
\* four children and no id of its own.
NodeShapeInvariant ==
    Running => NodeShape(qt)

\* C13 witness: a rebalance has returned and left a leaf holding exactly
\* CAPACITY = MaxCapacity ids under a subdivided root, one of them moved in.
FullLeafUnderInternal ==
    /\ op = "rebalance" /\ res = Ok
    /\ capacity = MaxCapacity
    /\ qt.subdivisions # << >>
    /\ \E q \in {"ne", "nw", "se", "sw"} :
          LET n == qt.subdivisions[1][q]
          IN  /\ n.subdivisions = << >>
              /\ Len(n.boids) = capacity
              /\ n.boids[Len(n.boids)] < n.boids[1]

\* under every subdivided node, the child that find_which_child names for a
\* position inside the node's rectangle contains that position
RECURSIVE ChildContains(_)
ChildContains(node) ==
    node.subdivisions # << >> =>
        /\ \A pos \in GridDomain :
              Contains(node.container, pos[1], pos[2]) =>
                  Contains(node.subdivisions[1][FindWhichChild(node.container, pos)].container,
                           pos[1], pos[2])
        /\ \A q \in {"ne", "nw", "se", "sw"} : ChildContains(node.subdivisions[1][q])

RECURSIVE NodePaths(_)
NodePaths(node) ==
    IF node.subdivisions = << >> THEN {<< >>}
    ELSE {<< >>} \cup
         UNION {{<<q>> \o p : p \in NodePaths(node.subdivisions[1][q])} :
                    q \in {"ne", "nw", "se", "sw"}}

\* r is what _rebalance returned for node: when it returned, its orphans are
\* the ids held under node that are outside node's rectangle, and the ids
\* held under node afterwards are the others
OrphansOf(node, pool, r) ==
    r.res = Ok =>
        /\ Range(r.rejects) = HeldOutside(node, pool)
        /\ NoDup(r.rejects)
        /\ Range(Held(r.qt)) = Range(Held(node)) \ HeldOutside(node, pool)

\* C15: orphan reinsertion level.  For every node of the tree, whatever the
\* positions the moves have left, the orphans _rebalance returns to the
\* node's caller are exactly the ids of its subtree whose position is outside
\* the node's rectangle, and every other id of the subtree is held in the
\* subtree afterwards: an id that left its leaf climbs through the ancestors
\* that do not contain it and is re-inserted by the lowest one that does.
OrphanReinsertionLevel ==
    Running =>
        \A p \in NodePaths(qt) :
            OrphansOf(NodeAt(qt, p)[1], bp, RebalanceRec(NodeAt(qt, p)[1], bp))

\* r is what _rebalance returned for node: the id came back into its subtree
ReinsertedBelow(node, id, pool, r) ==
    /\ Contains(node.container, pool[id][1], pool[id][2])
    /\ r.res = Ok /\ r.rejects = << >>
    /\ id \in Range(Held(r.qt))

\* C15 witness: an id has moved out of a leaf two levels below the root to
\* a position inside the quadrant above the leaf, and another out of the
\* root rectangle; the quadrant's _rebalance re-inserts the first, and the
\* root's returns the second to its caller.
OrphanStopsBelowRoot ==
    /\ Running /\ moved
    /\ HeldOutside(qt, bp) # {}
    /\ \E p \in InternalPaths(qt), q \in {"ne", "nw", "se", "sw"} :
          /\ Len(p) = 1
          /\ \E id \in HeldOutside(NodeAt(qt, p \o <<q>>)[1], bp) :
                ReinsertedBelow(NodeAt(qt, p)[1], id, bp,
                                RebalanceRec(NodeAt(qt, p)[1], bp))

\* The extents of the queried rectangles on one axis: every interval of
\* grid values from one step before the root to one step past it, single
\* values included
QueryExtents ==
    {h \in ((0 - 1)..(WorldSize + 1)) \X ((0 - 1)..(WorldSize + 1)) : h[1] <= h[2]}

QueryRects ==
    {RectContainer(h[1], h[2], v[1], v[2]) : h \in QueryExtents, v \in QueryExtents}

\* the linear scan: the inserted ids whose position is inside the rectangle
LinearScan(query) ==
    {id \in inserted : Contains(query, bp[id][1], bp[id][2])}

\* C16: range query equals linear scan.  In every state reached by inserts
\* and move+rebalance steps, the query of any rectangle, one that only
\* touches a node's edge or lies partly outside the root included, returns
\* exactly the inserted ids whose position is inside it, each once.
QueryEqualsLinearScan ==
    (Running /\ ~moved) =>
        \A query \in QueryRects :
            /\ NoDup(QueryRange(qt, query, bp))
            /\ Range(QueryRange(qt, query, bp)) = LinearScan(query)

\* C16 witness: after moves and a rebalance, on a tree subdivided twice, a
\* rectangle that shares only a corner with the root finds the id there, a
\* rectangle across the dividers finds another, and one finds none.
QueryTouchingEdge ==
    /\ op = "rebalance" /\ res = Ok
    /\ \E p \in InternalPaths(qt) : p # << >>
    /\ QueryRange(qt, RectContainer(0 - 1, 0, 0 - 1, 0), bp) # << >>
    /\ QueryRange(qt, RectContainer(Centre[1] - 1, Centre[1] + 1,
                                    Centre[2] - 1, Centre[2] + 1), bp) # << >>
    /\ \E query \in QueryRects : QueryRange(qt, query, bp) = << >>

\* C17: no stale subdivision.  After every insert and every rebalance that
\* returns, every internal node has at least one id somewhere in its
\* subtree: none has four children that are all empty leaves.
NoStaleSubdivision ==
    (Running /\ op \in {"insert", "rebalance"}) =>
        \A p \in InternalPaths(qt) :
            /\ Held(NodeAt(qt, p)[1]) # << >>
            /\ \E q \in {"ne", "nw", "se", "sw"} :
                  LET child == NodeAt(qt, p)[1].subdivisions[1][q]
                  IN  child.subdivisions # << >> \/ child.boids # << >>

\* C17 witness: a rebalance found a subdivided quadrant vacated and has
\* returned; the quadrant is a leaf again, the root is the only internal
\* node left and holds all MaxBoids ids below it.
StaleDiscarded ==
    /\ op = "rebalance" /\ res = Ok
    /\ \E p \in vacated :
          NodeAt(qt, p) # << >> /\ NodeAt(qt, p)[1].subdivisions = << >>
    /\ InternalPaths(qt) = {<< >>}
    /\ Len(Held(qt)) = MaxBoids

\* the node at the path is still in the tree and the id is held by it or
\* by a node below it
HeldAtOrBelow(root, path, id) ==
    /\ NodeAt(root, path) # << >>
    /\ id \in Range(Held(NodeAt(root, path)[1]))

\* C18: rebalance leaves unmoved points in place.  An id whose position is
\* still inside the rectangle of the leaf that holds it before a rebalance
\* is, once the rebalance has returned, held by the node at the same place
\* or, when the rebalance subdivided it, by one of its descendants.
UnmovedStayInPlace ==
    [][(op' = "rebalance" /\ res' = Ok) =>
        \A p \in NodePaths(qt) :
            \A id \in Range(NodeAt(qt, p)[1].boids) :
                Contains(NodeAt(qt, p)[1].container, bp[id][1], bp[id][2])
                    => HeldAtOrBelow(qt', p, id)]_vars

\* r is what rebalance makes of the tree: it returns, the leaf at the path
\* is subdivided by it and id is held below
SubdividedAround(r, path, id) ==
    /\ r.res = Ok
    /\ HeldAtOrBelow(r.qt, path, id)
    /\ NodeAt(r.qt, path)[1].subdivisions # << >>

\* C18 witness: a rebalance is about to bring an orphan into a full leaf
\* below the root that holds an id still inside its rectangle: the leaf is
\* subdivided and the id is held by one of the new children.
UnmovedInSubdividedLeaf ==
    /\ Running /\ moved
    /\ \E p \in NodePaths(qt) :
          /\ p # << >>
          /\ NodeAt(qt, p)[1].subdivisions = << >>
          /\ \E id \in Range(NodeAt(qt, p)[1].boids) :
                /\ Contains(NodeAt(qt, p)[1].container, bp[id][1], bp[id][2])
                /\ SubdividedAround(RebalanceRoot(qt, bp), p, id)

=============================================================================
